---- MODULE Spec2Model ----
(***************************************************************************)
(* Model of the per-frame form-assessment engine, class ExerciseAnalyzer   *)
(* (frontend/app/api/progress/patient/[patientId]/route.ts, lines 56-610). *)
(*                                                                         *)
(* Numbers.  Landmark coordinates are integers counting hundredths of the  *)
(* normalized image size (x = 0.46 is written 46).  Every threshold of the *)
(* code is compared in exact integer arithmetic on that grid; IEEE         *)
(* rounding is not modelled.  Real-valued outputs (symmetry, stability,    *)
(* range, timing) are rationals [n, d].  An angle returned by acos is      *)
(* represented by its cosine (sign and squared magnitude), an angle        *)
(* returned by atan2 by the direction (y, x) it was computed from; NaN is  *)
(* explicit.                                                               *)
(*                                                                         *)
(* A property read on a missing array element (landmarks[i].x with         *)
(* i >= landmarks.length) is the TypeError JavaScript raises: the call     *)
(* then has outcome "threw" and returns nothing, but the frame is already  *)
(* in the history.                                                         *)
(***************************************************************************)
EXTENDS Integers, Sequences, FiniteSets, TLC

VARIABLES
    frameHistory,   \* per analyzer: the frames kept (by name), oldest first
    phaseHistory,   \* per analyzer: declared by the class, never written
    result,         \* per analyzer: how its latest call ended
    passed,         \* per analyzer: every frame passed in, in call order
    asked,          \* per analyzer: the exercise id of its latest call
    lastCall,       \* the arguments of the latest call
    session,        \* which input bounds the run is explored under
    scored          \* three finding lists and the score computed from them

vars == <<frameHistory, phaseHistory, result, passed, asked, lastCall, session, scored>>

\* ------------------------------------------------------------------ bounds
\* A short session: at most MaxCalls calls per analyzer, the frame differing
\* from the previous one at most MaxChanges times.  A long session: at most
\* MaxCallsLong calls, each pose held for at least MinHold calls.  Two
\* analyzers side by side: at most MaxCallsPair calls each.  A sweep of the
\* knee offset and the torso: at most MaxCallsSweep calls.  Finding lists: at most
\* MaxFindings labels each.
MaxCalls == 5
MaxChanges == 1
MaxCallsLong == 32
MinHold == 10
MaxCallsPair == 3
MaxCallsSweep == 2
MaxFindings == 4
\* A warm-up session: at most MaxCallsWarm calls.  A session in which the
\* exercise id changes at every call: at most MaxCallsSwitch calls.
MaxCallsWarm == 11
MaxCallsSwitch == 4

\* ------------------------------------------------------- program constants
maxHistoryFrames == 30
NumLandmarks == 33

\* ---------------------------------------------------------------- numbers
Abs(n) == IF n < 0 THEN -n ELSE n
Max2(a, b) == IF a >= b THEN a ELSE b
Min2(a, b) == IF a <= b THEN a ELSE b

Rat(n, d) == [n |-> n, d |-> d]
RatLE(a, b) == a.n * b.d <= b.n * a.d
RatLT(a, b) == a.n * b.d < b.n * a.d
RatEq(a, b) == a.n * b.d = b.n * a.d

RECURSIVE SumSeq(_)
SumSeq(s) == IF s = <<>> THEN 0 ELSE Head(s) + SumSeq(Tail(s))

RECURSIVE MaxSeq(_)
MaxSeq(s) == IF Len(s) = 1 THEN s[1] ELSE Max2(Head(s), MaxSeq(Tail(s)))

RECURSIVE MinSeq(_)
MinSeq(s) == IF Len(s) = 1 THEN s[1] ELSE Min2(Head(s), MinSeq(Tail(s)))

\* Array.prototype.slice(-k): the last k elements, or all of them.
SliceLast(s, k) == IF Len(s) <= k THEN s ELSE SubSeq(s, Len(s) - k + 1, Len(s))

\* ------------------------------------------------------------- landmarks
Length(landmarks) == Cardinality(DOMAIN landmarks)
Has(landmarks, idxs) == idxs \subseteq DOMAIN landmarks

\* ------------------------------------------------- geometric primitives
NaN == [nan |-> TRUE, sgn |-> 0, num |-> 0, den |-> 1]

Sign(n) == IF n > 0 THEN 1 ELSE IF n < 0 THEN -1 ELSE 0

\* Math.max(-1, Math.min(1, cos)) on cos = sgn * sqrt(num / den).
ClampCos(sgn, num, den) ==
    [nan |-> FALSE, sgn |-> sgn, num |-> Min2(num, den), den |-> den]

\* The angle between the two vectors in space, z included.
calculateAngle3D(p1, p2, p3) ==
    LET v1x == p1.x - p2.x
        v1y == p1.y - p2.y
        v1z == p1.z - p2.z
        v2x == p3.x - p2.x
        v2y == p3.y - p2.y
        v2z == p3.z - p2.z
        dot == v1x * v2x + v1y * v2y + v1z * v2z
        mag1sq == v1x * v1x + v1y * v1y + v1z * v1z
        mag2sq == v2x * v2x + v2y * v2y + v2z * v2z
    IN  IF mag1sq * mag2sq = 0
          THEN NaN
          ELSE ClampCos(Sign(dot), dot * dot, mag1sq * mag2sq)

calculateAngle(p1, p2, p3) ==
    LET v1x == p1.x - p2.x
        v1y == p1.y - p2.y
        v2x == p3.x - p2.x
        v2y == p3.y - p2.y
        dot == v1x * v2x + v1y * v2y
        mag1sq == v1x * v1x + v1y * v1y
        mag2sq == v2x * v2x + v2y * v2y
    IN  IF mag1sq * mag2sq = 0
          THEN NaN            \* 0 / 0; min, max and acos all propagate NaN
          ELSE ClampCos(Sign(dot), dot * dot, mag1sq * mag2sq)

\* angle > 90 in degrees; every comparison with NaN is false.
AngleGT90(a) == ~a.nan /\ a.sgn < 0

\* |Math.atan2(y, x)| * (180 / PI), kept as the direction it measures.
AbsAtan2(y, x) == [ay |-> Abs(y), ax |-> x]

\* tan(20 deg) = 0.36397023..., tan(30 deg) = 1 / sqrt(3), tan(45 deg) = 1.
\* 363970 / 10^6 separates the grid's ratios exactly as tan(20 deg) does.
DegGT(a, deg) ==
    IF a.ay = 0 /\ a.ax = 0 THEN FALSE          \* atan2(0, 0) = 0
    ELSE IF a.ax <= 0 THEN TRUE                 \* 90 degrees or more
    ELSE CASE deg = 45 -> a.ay > a.ax
           [] deg = 30 -> 3 * a.ay * a.ay > a.ax * a.ax
           [] deg = 20 -> 1000000 * a.ay > 363970 * a.ax

calculateHipAngle(landmarks) == calculateAngle(landmarks[11], landmarks[23], landmarks[25])
calculateKneeAngle(landmarks) == calculateAngle(landmarks[23], landmarks[25], landmarks[27])
calculateAnkleAngle(landmarks) == calculateAngle(landmarks[25], landmarks[27], landmarks[31])
calculateShoulderAngle(landmarks) == calculateAngle(landmarks[13], landmarks[11], landmarks[23])
calculateElbowAngle(landmarks) == calculateAngle(landmarks[11], landmarks[13], landmarks[15])
calculateWristAngle(landmarks) == calculateAngle(landmarks[13], landmarks[15], landmarks[19])
calculateSpinalAngle(landmarks) == calculateAngle(landmarks[11], landmarks[23], landmarks[25])

\* ------------------------------------------------ analysis helper methods
\* The valgus taken as the smaller of the two legs' offsets (Math.min).
analyzeKneeAlignmentMin(landmarks) ==
    [valgus |-> Min2(Abs(landmarks[25].x - landmarks[27].x),
                     Abs(landmarks[26].x - landmarks[28].x))]

\* valgus, on the x100 scale of the code (an integer on the grid).
analyzeKneeAlignment(landmarks) ==
    LET leftValgus == Abs(landmarks[25].x - landmarks[27].x)
        rightValgus == Abs(landmarks[26].x - landmarks[28].x)
    IN  [valgus |-> Max2(leftValgus, rightValgus)]

\* The back angle measured from the vertical: atan2(|dx|, |dy|).
calculateBackAngleFromVertical(landmarks) ==
    AbsAtan2(landmarks[11].x - landmarks[23].x, Abs(landmarks[11].y - landmarks[23].y))

calculateBackAngle(landmarks) ==
    AbsAtan2(landmarks[11].y - landmarks[23].y, landmarks[11].x - landmarks[23].x)

calculateSquatDepth(landmarks) ==
    Min2(100, Abs(landmarks[23].y - landmarks[25].y))

\* The symmetry without Math.max(0, ...): large differences go negative.
calculateBilateralSymmetryNoFloor(landmarks) ==
    Rat(  (10 - Abs(landmarks[11].y - landmarks[12].y))
        + (10 - Abs(landmarks[13].y - landmarks[14].y))
        + (10 - Abs(landmarks[15].y - landmarks[16].y))
        + (10 - Abs(landmarks[23].y - landmarks[24].y))
        + (10 - Abs(landmarks[25].y - landmarks[26].y))
        + (10 - Abs(landmarks[27].y - landmarks[28].y)), 60)

LeftSide == <<11, 13, 15, 23, 25, 27>>
RightSide == <<12, 14, 16, 24, 26, 28>>

\* Each pair adds max(0, 1 - diff * 10) = max(0, 10 - |dy|) / 10.
calculateBilateralSymmetry(landmarks) ==
    LET term(i) == Max2(0, 10 - Abs(landmarks[LeftSide[i]].y - landmarks[RightSide[i]].y))
        symmetryScore == SumSeq([i \in 1..Len(LeftSide) |-> term(i)])
    IN  Rat(symmetryScore, 10 * Len(LeftSide))

RECURSIVE SumUpTo(_, _)
SumUpTo(f, n) == IF n = 0 THEN 0 ELSE f[n] + SumUpTo(f, n - 1)

\* positions.reduce(sum of (p - avg)^2) for one coordinate, times n^2
\* (avg = sum / n, so n * (p - avg) = n * p - sum).
SquaredDeviations(vals) ==
    LET n == Len(vals)
        s == SumUpTo(vals, n)
        d == [k \in 1..n |-> (n * vals[k] - s) * (n * vals[k] - s)]
    IN  SumUpTo(d, n)

\* The variance taken over the 5 oldest frames kept (slice(0, 5)).
calculateStabilityOldest(landmarks, history) ==
    IF Len(history) < 5 THEN Rat(5, 10)
    ELSE LET recentFrames == SubSeq(history, 1, 5)
             xs(i) == [k \in 1..5 |-> recentFrames[k][i].x]
             ys(i) == [k \in 1..5 |-> recentFrames[k][i].y]
             variance == [j \in 1..Length(landmarks) |->
                            SquaredDeviations(xs(j - 1)) + SquaredDeviations(ys(j - 1))]
             T == SumUpTo(variance, Length(landmarks))
         IN  Rat(Max2(0, 12500 - T), 12500)

\* totalVariance * 100 = T / 12500 with T the integer below: each variance
\* is SquaredDeviations / (25 * 5) in squared hundredths, / 10^4 in units.
calculateStability(landmarks, history) ==
    IF Len(history) < 5 THEN Rat(5, 10)
    ELSE LET recentFrames == SliceLast(history, 5)
             xs(i) == [k \in 1..5 |-> recentFrames[k][i].x]
             ys(i) == [k \in 1..5 |-> recentFrames[k][i].y]
             variance == [j \in 1..Length(landmarks) |->
                            SquaredDeviations(xs(j - 1)) + SquaredDeviations(ys(j - 1))]
             T == SumUpTo(variance, Length(landmarks))
         IN  Rat(Max2(0, 12500 - T), 12500)

\* The loop bound i <= landmarks.length reads one element past every frame.
calculateStabilityThrowsPastEnd(landmarks, history) ==
    Len(history) >= 5

calculateStabilityThrows(landmarks, history) ==
    /\ Len(history) >= 5
    /\ \E k \in 1..5 : ~(DOMAIN landmarks \subseteq DOMAIN SliceLast(history, 5)[k])

\* ------------------------------------------------ phase detection methods
\* trend = recent[2] - recent[0] over the last 3 history frames of
\* landmark idx; 0.01 is 1 on the grid.
\* "starting" up to and including 3 frames (<= 3 in place of < 3).
PhaseFromTrendLate(history, idx) ==
    IF Len(history) <= 3 THEN "starting"
    ELSE LET recent == [k \in 1..3 |-> SliceLast(history, 3)[k][idx].y]
             trend == recent[3] - recent[1]
         IN  IF trend > 1 THEN "descending"
             ELSE IF trend < -1 THEN "ascending"
             ELSE "bottom"

\* The trend taken between the two latest frames (recent[2] - recent[1]).
PhaseFromTrendAdjacent(history, idx) ==
    IF Len(history) < 3 THEN "starting"
    ELSE LET recent == [k \in 1..3 |-> SliceLast(history, 3)[k][idx].y]
             trend == recent[3] - recent[2]
         IN  IF trend > 1 THEN "descending"
             ELSE IF trend < -1 THEN "ascending"
             ELSE "bottom"

PhaseFromTrend(history, idx) ==
    IF Len(history) < 3 THEN "starting"
    ELSE LET recent == [k \in 1..3 |-> SliceLast(history, 3)[k][idx].y]
             trend == recent[3] - recent[1]
         IN  IF trend > 1 THEN "descending"
             ELSE IF trend < -1 THEN "ascending"
             ELSE "bottom"

PhaseThrows(landmarks, history, idx) ==
    \/ ~Has(landmarks, {idx})
    \/ /\ Len(history) >= 3
       /\ \E k \in 1..3 : ~Has(SliceLast(history, 3)[k], {idx})

\* The phase of a plank read off the hip trend like a squat's.
PlankPhaseFromTrend(landmarks, history) == PhaseFromTrend(history, 23)

\* const phase = "hold" of analyzePlank.
PlankPhase(landmarks, history) == "hold"

detectSquatPhase(landmarks, history) == PhaseFromTrend(history, 23)
detectPushupPhase(landmarks, history) == PhaseFromTrend(history, 11)
detectLungePhase(landmarks, history) == PhaseFromTrend(history, 23)

\* ------------------------------------------------ additional helpers
\* |hip.y - (shoulder.y + (ankle.y - shoulder.y) * 0.6)| * 100, times 10.
HipLineDeviation10(landmarks) ==
    Abs(10 * landmarks[23].y
        - (10 * landmarks[11].y + 6 * (landmarks[27].y - landmarks[11].y)))

analyzePushupAlignment(landmarks) == [hipSag10 |-> HipLineDeviation10(landmarks)]

\* The range of motion measured from the first frame, the warm-up default
\* of 50 left out.
calculatePushupROMNoWarmup(landmarks, history) ==
    LET shoulderHeights == [k \in 1..Len(history) |-> history[k][11].y]
    IN  MaxSeq(shoulderHeights) - MinSeq(shoulderHeights)

calculatePushupROM(landmarks, history) ==
    IF Len(history) < 10 THEN 50
    ELSE LET shoulderHeights == [k \in 1..Len(history) |-> history[k][11].y]
         IN  MaxSeq(shoulderHeights) - MinSeq(shoulderHeights)

calculatePushupROMThrows(landmarks, history) ==
    /\ Len(history) >= 10
    /\ \E k \in 1..Len(history) : ~Has(history[k], {11})

\* The expected hip height taken at the shoulder, the ankle term left out.
analyzePlankAlignmentNoAnkle(landmarks) ==
    [deviation10 |-> Abs(10 * landmarks[23].y - 10 * landmarks[11].y)]

analyzePlankAlignment(landmarks) == [deviation10 |-> HipLineDeviation10(landmarks)]

\* hip.y, in hundredths
calculateHipPosition(landmarks) == [height |-> landmarks[23].y]

analyzeFrontKneeAlignment(landmarks) ==
    [overAnkle |-> Abs(landmarks[25].x - landmarks[27].x)]

\* The lean measured from the vertical whichever end is up: atan2(dx, |dy|).
calculateTorsoLeanFromVertical(landmarks) ==
    AbsAtan2(landmarks[11].x - landmarks[23].x, Abs(landmarks[11].y - landmarks[23].y))

calculateTorsoLean(landmarks) ==
    AbsAtan2(landmarks[11].x - landmarks[23].x, landmarks[11].y - landmarks[23].y)

calculateCoreStability(landmarks, history) == calculateStability(landmarks, history)
calculatePlankStability(landmarks, history) == calculateStability(landmarks, history)
calculateSingleLegStability(landmarks, history) == calculateStability(landmarks, history)
calculateLateralSymmetry(landmarks) == calculateBilateralSymmetry(landmarks)
calculateFrontHipAngle(landmarks) == calculateHipAngle(landmarks)
calculateFrontKneeAngle(landmarks) == calculateKneeAngle(landmarks)
calculateBackHipAngle(landmarks) == calculateHipAngle(landmarks)
calculateLungeDepth(landmarks) == calculateSquatDepth(landmarks)
calculateMovementTiming == Rat(1, 1)
calculateHoldTime == Rat(1, 1)

\* ------------------------------------------------------- scoring policy
\* The score without the upper clamp.
calculateFormScoreNoCap(criticalErrors, minorIssues, strengths) ==
    Max2(0, 100 - Len(criticalErrors) * 25 - Len(minorIssues) * 10
              + Len(strengths) * 5)

\* A critical error deducting 5, the weight of a strength, instead of 25.
calculateFormScoreLightCritical(criticalErrors, minorIssues, strengths) ==
    Max2(0, Min2(100, 100 - Len(criticalErrors) * 5 - Len(minorIssues) * 10
                          + Len(strengths) * 5))

\* A minor issue deducting 15 instead of 10.
calculateFormScoreHeavyMinor(criticalErrors, minorIssues, strengths) ==
    Max2(0, Min2(100, 100 - Len(criticalErrors) * 25 - Len(minorIssues) * 15
                          + Len(strengths) * 5))

\* A critical error deducting 30 instead of 25.
calculateFormScoreCritical30(criticalErrors, minorIssues, strengths) ==
    Max2(0, Min2(100, 100 - Len(criticalErrors) * 30 - Len(minorIssues) * 10
                          + Len(strengths) * 5))

\* A strength adding 10, the weight of a minor issue, instead of 5.
calculateFormScoreHeavyStrength(criticalErrors, minorIssues, strengths) ==
    Max2(0, Min2(100, 100 - Len(criticalErrors) * 25 - Len(minorIssues) * 10
                          + Len(strengths) * 10))

\* A critical error deducting 20 instead of 25.
calculateFormScoreCritical20(criticalErrors, minorIssues, strengths) ==
    Max2(0, Min2(100, 100 - Len(criticalErrors) * 20 - Len(minorIssues) * 10
                          + Len(strengths) * 5))

calculateFormScore(criticalErrors, minorIssues, strengths) ==
    LET score == 100 - Len(criticalErrors) * 25 - Len(minorIssues) * 10
                     + Len(strengths) * 5
    IN  Max2(0, Min2(100, score))

\* ------------------------------------------------------- biomechanics
Joint(name, angle) == [joint |-> name, angle |-> angle]

calculateSquatBiomechanics(landmarks, history) ==
    [jointAngles |-> {Joint("hip", calculateHipAngle(landmarks)),
                      Joint("knee", calculateKneeAngle(landmarks)),
                      Joint("ankle", calculateAnkleAngle(landmarks))},
     symmetry |-> calculateBilateralSymmetry(landmarks),
     stability |-> calculateStability(landmarks, history),
     range |-> Rat(calculateSquatDepth(landmarks), 100),
     timing |-> calculateMovementTiming]

\* range: the range of motion as calculatePushupROM returns it, the
\* division by 100 left out.
calculatePushupBiomechanicsRawRange(landmarks, history) ==
    [jointAngles |-> {Joint("shoulder", calculateShoulderAngle(landmarks)),
                      Joint("elbow", calculateElbowAngle(landmarks)),
                      Joint("wrist", calculateWristAngle(landmarks))},
     symmetry |-> calculateBilateralSymmetry(landmarks),
     stability |-> calculateCoreStability(landmarks, history),
     range |-> Rat(calculatePushupROM(landmarks, history), 1),
     timing |-> calculateMovementTiming]

calculatePushupBiomechanics(landmarks, history) ==
    [jointAngles |-> {Joint("shoulder", calculateShoulderAngle(landmarks)),
                      Joint("elbow", calculateElbowAngle(landmarks)),
                      Joint("wrist", calculateWristAngle(landmarks))},
     symmetry |-> calculateBilateralSymmetry(landmarks),
     stability |-> calculateCoreStability(landmarks, history),
     range |-> Rat(calculatePushupROM(landmarks, history), 100),
     timing |-> calculateMovementTiming]

calculatePlankBiomechanics(landmarks, history) ==
    [jointAngles |-> {Joint("shoulder", calculateShoulderAngle(landmarks)),
                      Joint("hip", calculateHipAngle(landmarks)),
                      Joint("spine", calculateSpinalAngle(landmarks))},
     symmetry |-> calculateBilateralSymmetry(landmarks),
     stability |-> calculatePlankStability(landmarks, history),
     range |-> Rat(1, 1),
     timing |-> calculateHoldTime]

calculateLungeBiomechanics(landmarks, history) ==
    [jointAngles |-> {Joint("frontHip", calculateFrontHipAngle(landmarks)),
                      Joint("frontKnee", calculateFrontKneeAngle(landmarks)),
                      Joint("backHip", calculateBackHipAngle(landmarks))},
     symmetry |-> calculateLateralSymmetry(landmarks),
     stability |-> calculateSingleLegStability(landmarks, history),
     range |-> Rat(calculateLungeDepth(landmarks), 100),
     timing |-> calculateMovementTiming]

\* ------------------------------------------------- per-exercise analyzers
Finding(cond, label) == IF cond THEN <<label>> ELSE <<>>

Assessment(criticalErrors, minorIssues, strengths, phase, biomechanics) ==
    [score |-> calculateFormScore(criticalErrors, minorIssues, strengths),
     criticalErrors |-> criticalErrors,
     minorIssues |-> minorIssues,
     strengths |-> strengths,
     phase |-> phase,
     biomechanics |-> biomechanics]

SquatIdx == {11, 12, 13, 14, 15, 16, 23, 24, 25, 26, 27, 28, 31}
PushupIdx == {11, 12, 13, 14, 15, 16, 19, 23, 24, 25, 26, 27, 28}
PlankIdx == {11, 12, 13, 14, 15, 16, 23, 24, 25, 26, 27, 28}
LungeIdx == {11, 12, 13, 14, 15, 16, 23, 24, 25, 26, 27, 28}

analyzeSquat(landmarks, history) ==
    LET biomechanics == calculateSquatBiomechanics(landmarks, history)
        phase == detectSquatPhase(landmarks, history)
        kneeAlignment == analyzeKneeAlignment(landmarks)
        backAngle == calculateBackAngle(landmarks)
        depth == calculateSquatDepth(landmarks)
        kneeCrit == kneeAlignment.valgus > 15
        kneeMinor == ~kneeCrit /\ kneeAlignment.valgus > 8
        backCrit == DegGT(backAngle, 45)
        backMinor == ~backCrit /\ DegGT(backAngle, 30)
        shallow == depth < 70
        asym == RatLT(biomechanics.symmetry, Rat(85, 100))
        criticalErrors ==
            Finding(kneeCrit, "Knees caving inward - risk of injury")
            \o Finding(backCrit, "Excessive forward lean - maintain upright torso")
        minorIssues ==
            Finding(kneeMinor, "Slight knee valgus - focus on external rotation")
            \o Finding(backMinor, "Slight forward lean - engage core more")
            \o Finding(shallow, "Increase squat depth for full range of motion")
            \o Finding(asym, "Slight asymmetry detected - check balance")
        strengths ==
            Finding(~kneeCrit /\ ~kneeMinor, "Good knee alignment")
            \o Finding(~backCrit /\ ~backMinor, "Good torso position")
            \o Finding(~shallow, "Good squat depth")
            \o Finding(~asym, "Good bilateral symmetry")
    IN  Assessment(criticalErrors, minorIssues, strengths, phase, biomechanics)

analyzeSquatThrows(landmarks, history) ==
    \/ ~Has(landmarks, SquatIdx)
    \/ calculateStabilityThrows(landmarks, history)
    \/ PhaseThrows(landmarks, history, 23)

analyzePushup(landmarks, history) ==
    LET biomechanics == calculatePushupBiomechanics(landmarks, history)
        phase == detectPushupPhase(landmarks, history)
        bodyAlignment == analyzePushupAlignment(landmarks)
        elbowAngle == calculateElbowAngle(landmarks)
        rom == calculatePushupROM(landmarks, history)
        sagCrit == bodyAlignment.hipSag10 > 200
        sagMinor == ~sagCrit /\ bodyAlignment.hipSag10 > 100
        flare == AngleGT90(elbowAngle)
        lowRom == rom < 60
        criticalErrors == Finding(sagCrit, "Hips sagging - engage core muscles")
        minorIssues ==
            Finding(sagMinor, "Slight hip sag - tighten core")
            \o Finding(flare, "Elbows flaring too wide - aim for 45 degrees")
            \o Finding(lowRom, "Increase range of motion - lower chest closer to ground")
        strengths ==
            Finding(~sagCrit /\ ~sagMinor, "Good plank position")
            \o Finding(~flare, "Good elbow position")
            \o Finding(~lowRom, "Good range of motion")
    IN  Assessment(criticalErrors, minorIssues, strengths, phase, biomechanics)

analyzePushupThrows(landmarks, history) ==
    \/ ~Has(landmarks, PushupIdx)
    \/ calculateStabilityThrows(landmarks, history)
    \/ calculatePushupROMThrows(landmarks, history)
    \/ PhaseThrows(landmarks, history, 11)

\* The minor spinal test as an `if` of its own (the `else` lost): a
\* deviation above 25 is reported as critical and as minor.
analyzePlankNoElse(landmarks, history) ==
    LET biomechanics == calculatePlankBiomechanics(landmarks, history)
        phase == PlankPhase(landmarks, history)
        spinalAlignment == analyzePlankAlignment(landmarks)
        hipPosition == calculateHipPosition(landmarks)
        spineCrit == spinalAlignment.deviation10 > 250
        spineMinor == spinalAlignment.deviation10 > 150
        hipLow == hipPosition.height < 30
        hipHigh == ~hipLow /\ hipPosition.height > 70
        unstable == RatLT(biomechanics.stability, Rat(7, 10))
        criticalErrors ==
            Finding(spineCrit, "Significant spinal misalignment")
            \o Finding(hipLow, "Hips too low - lift to neutral")
            \o Finding(hipHigh, "Hips too high - lower to neutral")
        minorIssues ==
            Finding(spineMinor, "Minor spinal deviation - adjust position")
            \o Finding(unstable, "Work on stability - reduce trembling")
        strengths ==
            Finding(~spineMinor, "Excellent spinal alignment")
            \o Finding(~hipLow /\ ~hipHigh, "Good hip position")
            \o Finding(~unstable, "Good stability")
    IN  Assessment(criticalErrors, minorIssues, strengths, phase, biomechanics)

analyzePlank(landmarks, history) ==
    LET biomechanics == calculatePlankBiomechanics(landmarks, history)
        phase == PlankPhase(landmarks, history)
        spinalAlignment == analyzePlankAlignment(landmarks)
        hipPosition == calculateHipPosition(landmarks)
        spineCrit == spinalAlignment.deviation10 > 250
        spineMinor == ~spineCrit /\ spinalAlignment.deviation10 > 150
        hipLow == hipPosition.height < 30
        hipHigh == ~hipLow /\ hipPosition.height > 70
        unstable == RatLT(biomechanics.stability, Rat(7, 10))
        criticalErrors ==
            Finding(spineCrit, "Significant spinal misalignment")
            \o Finding(hipLow, "Hips too low - lift to neutral")
            \o Finding(hipHigh, "Hips too high - lower to neutral")
        minorIssues ==
            Finding(spineMinor, "Minor spinal deviation - adjust position")
            \o Finding(unstable, "Work on stability - reduce trembling")
        strengths ==
            Finding(~spineCrit /\ ~spineMinor, "Excellent spinal alignment")
            \o Finding(~hipLow /\ ~hipHigh, "Good hip position")
            \o Finding(~unstable, "Good stability")
    IN  Assessment(criticalErrors, minorIssues, strengths, phase, biomechanics)

analyzePlankThrows(landmarks, history) ==
    \/ ~Has(landmarks, PlankIdx)
    \/ calculateStabilityThrows(landmarks, history)

analyzeLunge(landmarks, history) ==
    LET biomechanics == calculateLungeBiomechanics(landmarks, history)
        phase == detectLungePhase(landmarks, history)
        frontKnee == analyzeFrontKneeAlignment(landmarks)
        torsoLean == calculateTorsoLean(landmarks)
        kneeCrit == frontKnee.overAnkle > 20
        kneeMinor == ~kneeCrit /\ frontKnee.overAnkle > 10
        lean == DegGT(torsoLean, 20)
        offBalance == RatLT(biomechanics.stability, Rat(6, 10))
        criticalErrors ==
            Finding(kneeCrit, "Front knee too far forward - shift weight back")
        minorIssues ==
            Finding(kneeMinor, "Front knee slightly forward - adjust stance")
            \o Finding(lean, "Excessive forward lean - keep torso upright")
            \o Finding(offBalance, "Work on balance - engage core")
        strengths ==
            Finding(~kneeCrit /\ ~kneeMinor, "Good front knee position")
            \o Finding(~lean, "Good torso position")
            \o Finding(~offBalance, "Good balance")
    IN  Assessment(criticalErrors, minorIssues, strengths, phase, biomechanics)

analyzeLungeThrows(landmarks, history) ==
    \/ ~Has(landmarks, LungeIdx)
    \/ calculateStabilityThrows(landmarks, history)
    \/ PhaseThrows(landmarks, history, 23)

\* The default assessment with the phase label of a fresh session.
getDefaultAssessmentStarting ==
    [score |-> 75,
     criticalErrors |-> <<>>,
     minorIssues |-> <<>>,
     strengths |-> <<"Exercise detected">>,
     phase |-> "starting",
     biomechanics |-> [jointAngles |-> {},
                       symmetry |-> Rat(8, 10),
                       stability |-> Rat(7, 10),
                       range |-> Rat(8, 10),
                       timing |-> Rat(1, 1)]]

getDefaultAssessment ==
    [score |-> 75,
     criticalErrors |-> <<>>,
     minorIssues |-> <<>>,
     strengths |-> <<"Exercise detected">>,
     phase |-> "unknown",
     biomechanics |-> [jointAngles |-> {},
                       symmetry |-> Rat(8, 10),
                       stability |-> Rat(7, 10),
                       range |-> Rat(8, 10),
                       timing |-> Rat(1, 1)]]

\* isGoodForm: formAssessment.score >= 70, of the component showing feedback.
isGoodForm(formAssessment) == formAssessment.score >= 70

\* ----------------------------------------------------- public entry point
\* frameHistory.push(landmarks), then shift() when longer than the capacity.
\* pop() in place of shift(): the newest frame is dropped, not the oldest.
PushFramePop(history, landmarks) ==
    LET pushed == Append(history, landmarks)
    IN  IF Len(pushed) > maxHistoryFrames THEN history ELSE pushed

PushFrame(history, landmarks) ==
    LET pushed == Append(history, landmarks)
    IN  IF Len(pushed) > maxHistoryFrames THEN Tail(pushed) ELSE pushed

Returned(value) == [outcome |-> "returned", value |-> value]
Threw == [outcome |-> "threw", value |-> "TypeError"]
NotCalled == [outcome |-> "none", value |-> "undefined"]

\* The switch of analyzeExercise, on the history that already holds the frame.
Dispatch(landmarks, exercise, history) ==
    CASE exercise = "squat" ->
           IF analyzeSquatThrows(landmarks, history) THEN Threw
           ELSE Returned(analyzeSquat(landmarks, history))
      [] exercise = "pushup" ->
           IF analyzePushupThrows(landmarks, history) THEN Threw
           ELSE Returned(analyzePushup(landmarks, history))
      [] exercise = "plank" ->
           IF analyzePlankThrows(landmarks, history) THEN Threw
           ELSE Returned(analyzePlank(landmarks, history))
      [] exercise = "lunge" ->
           IF analyzeLungeThrows(landmarks, history) THEN Threw
           ELSE Returned(analyzeLunge(landmarks, history))
      [] OTHER -> Returned(getDefaultAssessment)

\* ------------------------------------------------------------ the inputs
Pt(x, y) == [x |-> x, y |-> y, z |-> 0, visibility |-> 100]

\* A person upright, facing the camera (index 0 is the nose, 11/12
\* shoulders, 13/14 elbows, 15/16 wrists, 23/24 hips, 25/26 knees, 27/28
\* ankles, 31/32 foot index).  The hips are 0.22 above the point 0.6 of the
\* way from the shoulder to the ankle.
BaseXY ==
    << <<50, 10>>, <<51, 8>>, <<52, 8>>, <<53, 8>>, <<49, 8>>, <<48, 8>>,
       <<47, 8>>, <<54, 9>>, <<46, 9>>, <<51, 12>>, <<49, 12>>,
       <<45, 30>>, <<55, 30>>, <<42, 45>>, <<58, 45>>, <<40, 60>>, <<60, 60>>,
       <<39, 62>>, <<61, 62>>, <<40, 63>>, <<60, 63>>, <<41, 61>>, <<59, 61>>,
       <<46, 47>>, <<54, 47>>, <<46, 75>>, <<54, 75>>, <<46, 95>>, <<54, 95>>,
       <<45, 97>>, <<55, 97>>, <<47, 98>>, <<53, 98>> >>

Stand == [i \in 0..(NumLandmarks - 1) |-> Pt(BaseXY[i + 1][1], BaseXY[i + 1][2])]

With(frame, o) == [i \in DOMAIN frame |-> IF i \in DOMAIN o THEN o[i] ELSE frame[i]]
Truncate(frame, n) == [i \in 0..(n - 1) |-> frame[i]]

\* Stand with the left knee 0.21 off its ankle.
StandValgus == With(Stand, 25 :> Pt(67, 75))

\* Torso leaning along the x axis, hips 0.75 above the knees: a squat frame
\* with no fault in any dimension.
Deep ==
    With(Stand, 11 :> Pt(60, 12) @@ 12 :> Pt(68, 12) @@ 23 :> Pt(40, 10)
                @@ 24 :> Pt(48, 10) @@ 25 :> Pt(46, 85) @@ 26 :> Pt(54, 85))

\* Deep with the left knee 0.21 off its ankle, nothing else changed.
DeepValgus == With(Deep, 25 :> Pt(67, 85))

\* Coordinates outside [0,1], a strongly asymmetric left and right side,
\* and the left foot index on the same point as the left ankle.
Tilted ==
    With(Stand, 11 :> Pt(-20, -35) @@ 12 :> Pt(130, 140) @@ 15 :> Pt(40, 57)
                @@ 23 :> Pt(46, 120) @@ 25 :> Pt(46, -30) @@ 31 :> Pt(46, 95))

\* A frame of 20 landmarks only.
Short == Truncate(Stand, 20)

\* Stand with the left ankle at x = 0 and the left knee 0.08, 0.09, 0.15
\* and 0.16 off it (offsets from 0 that the code's doubles hold and scale
\* by 100 without rounding error); the right knee stays over its ankle.
KneeOff(offset) == With(Stand, 25 :> Pt(offset, 75) @@ 27 :> Pt(0, 95))
Valgus8 == KneeOff(8)
Valgus9 == KneeOff(9)
Valgus15 == KneeOff(15)
Valgus16 == KneeOff(16)

\* Stand with the left shoulder straight above the left hip, level with it,
\* and on the very same point.
Upright == With(Stand, 11 :> Pt(46, 30))
Level == With(Stand, 11 :> Pt(30, 47))
Fold == With(Stand, 11 :> Pt(46, 47))

\* Stand as a detector reports it for a person partly out of view: the same
\* x and y, but depths that differ from landmark to landmark and
\* visibilities from 0.20 to 0.52.
Hidden ==
    [i \in DOMAIN Stand |->
        [x |-> Stand[i].x, y |-> Stand[i].y, z |-> 3 * i - 40, visibility |-> 20 + i]]

\* The landmark arrays the callers pass.  The analyzer stores the array it
\* is given by reference (frameHistory.push(landmarks)); the state holds the
\* name of the array and Pose gives its contents, which never change.
Pose ==
    [Stand |-> Stand, StandValgus |-> StandValgus, Deep |-> Deep,
     DeepValgus |-> DeepValgus, Tilted |-> Tilted, Short |-> Short,
     Valgus8 |-> Valgus8, Valgus9 |-> Valgus9, Valgus15 |-> Valgus15,
     Valgus16 |-> Valgus16, Upright |-> Upright, Level |-> Level,
     Fold |-> Fold, Hidden |-> Hidden]

Frames == {"Stand", "StandValgus", "Deep", "DeepValgus", "Tilted", "Short"}
LongFrames == {"Stand", "Tilted"}
PairFrames == {"Stand", "Deep"}
SweepFrames ==
    {"Stand", "Valgus8", "Valgus9", "Valgus15", "Valgus16",
     "Deep", "Upright", "Level", "Fold"}
WarmFrames == {"Deep", "Hidden"}
SwitchFrames == {"Stand", "Deep", "Tilted"}
FramesIn(history) == [k \in 1..Len(history) |-> Pose[history[k]]]
Exercises == {"squat", "pushup", "plank", "lunge", "yoga"}
Supported == {"squat", "pushup", "plank", "lunge"}

WellFormed(landmarks) == DOMAIN landmarks = 0..(NumLandmarks - 1)

FramesOf(s) ==
    CASE s = "long" -> LongFrames
      [] s = "pair" -> PairFrames
      [] s = "sweep" -> SweepFrames
      [] s = "warm" -> WarmFrames
      [] s = "switch" -> SwitchFrames
      [] OTHER -> Frames
CallLimit(s) ==
    CASE s = "long" -> MaxCallsLong
      [] s = "pair" -> MaxCallsPair
      [] s = "sweep" -> MaxCallsSweep
      [] s = "warm" -> MaxCallsWarm
      [] s = "switch" -> MaxCallsSwitch
      [] OTHER -> MaxCalls
Analyzers == DOMAIN frameHistory

\* ------------------------------------------------------------ the machine
\* The push placed inside the four case arms: a call with an exercise id
\* the switch does not know leaves the history as it was.
AnalyzeKnownOnly(history, landmarks, exercise) ==
    LET pushed == IF exercise \in Supported THEN PushFrame(history, landmarks)
                  ELSE history
    IN  [history |-> pushed,
         result |-> Dispatch(Pose[landmarks], exercise, FramesIn(pushed))]

\* analyzeExercise with frameHistory a static field: every analyzer pushes
\* onto, and reads, the frames the first analyzer holds.
AnalyzeStaticHistory(history, landmarks, exercise) ==
    LET pushed == PushFrame(frameHistory[1], landmarks)
    IN  [history |-> pushed,
         result |-> Dispatch(Pose[landmarks], exercise, FramesIn(pushed))]

\* analyzeExercise on an analyzer whose history is `history` (frame names):
\* the history afterwards and how the call ends.
Analyze(history, landmarks, exercise) ==
    LET pushed == PushFrame(history, landmarks)
    IN  [history |-> pushed,
         result |-> Dispatch(Pose[landmarks], exercise, FramesIn(pushed))]

\* How often the frame differed from the one before it, and for how many
\* calls the latest frame has been repeated.
Changes(p) == Cardinality({k \in 1..(Len(p) - 1) : p[k] # p[k + 1]})
RunLength(p) ==
    Cardinality({k \in 1..Len(p) : \A j \in k..Len(p) : p[j] = p[Len(p)]})

NoCall == [analyzer |-> 0, landmarks |-> "none", exercise |-> "none"]

\* Three finding lists with the score calculateFormScore gives them.
Scored(criticalErrors, minorIssues, strengths) ==
    [criticalErrors |-> criticalErrors,
     minorIssues |-> minorIssues,
     strengths |-> strengths,
     score |-> calculateFormScore(criticalErrors, minorIssues, strengths)]

\* const criticalErrors: string[] = [], and so on: the lists start empty.
NoFindings == Scored(<<>>, <<>>, <<>>)

InitAnalyzers(s, as) ==
    /\ frameHistory = [a \in as |-> <<>>]
    /\ phaseHistory = [a \in as |-> <<>>]
    /\ result = [a \in as |-> NotCalled]
    /\ passed = [a \in as |-> <<>>]
    /\ asked = [a \in as |-> "none"]
    /\ lastCall = NoCall
    /\ session = s

InitFor(s, as) == InitAnalyzers(s, as) /\ scored = NoFindings

Init == InitFor("short", {1})
InitLong == InitFor("long", {1})
InitPair == InitFor("pair", {1, 2})
InitSweep == InitFor("sweep", {1})
InitWarm == InitFor("warm", {1})
InitSwitch == InitFor("switch", {1})

\* k findings of one kind.
Labels(label, k) == [i \in 1..k |-> label]

\* The scoring policy on its own: any number of minor issues and strengths
\* up to MaxFindings, no critical error yet.
InitScore ==
    /\ InitAnalyzers("score", {1})
    /\ \E m \in 0..MaxFindings, s \in 0..MaxFindings :
          scored = Scored(<<>>, Labels("minor issue", m), Labels("strength", s))

\* One call with frameHistory shared by all instances (a static or
\* module-level array): the push shows in every analyzer's history.
AnalyzeExerciseShared(a, landmarks, exercise) ==
    LET call == Analyze(frameHistory[a], landmarks, exercise)
    IN  /\ Len(passed[a]) < CallLimit(session)
        /\ frameHistory' = [b \in Analyzers |-> call.history]
        /\ result' = [result EXCEPT ![a] = call.result]
        /\ passed' = [passed EXCEPT ![a] = Append(@, landmarks)]
        /\ asked' = [asked EXCEPT ![a] = exercise]
        /\ lastCall' = [analyzer |-> a, landmarks |-> landmarks, exercise |-> exercise]
        /\ UNCHANGED <<phaseHistory, session, scored>>

\* One call that clears frameHistory when the exercise id differs from the
\* id of the previous call (a history kept per exercise).
AnalyzeExerciseResetOnSwitch(a, landmarks, exercise) ==
    LET repeat == passed[a] # <<>> /\ passed[a][Len(passed[a])] = landmarks
        moved == passed[a] # <<>> /\ ~repeat
        kept == IF asked[a] = exercise THEN frameHistory[a] ELSE <<>>
        call == Analyze(kept, landmarks, exercise)
    IN  /\ Len(passed[a]) < CallLimit(session)
        /\ session = "switch" => exercise # asked[a]
        /\ moved => IF session = "long" THEN RunLength(passed[a]) >= MinHold
                             ELSE Changes(passed[a]) < MaxChanges
        /\ frameHistory' = [frameHistory EXCEPT ![a] = call.history]
        /\ result' = [result EXCEPT ![a] = call.result]
        /\ passed' = [passed EXCEPT ![a] = Append(@, landmarks)]
        /\ asked' = [asked EXCEPT ![a] = exercise]
        /\ lastCall' = [analyzer |-> a, landmarks |-> landmarks, exercise |-> exercise]
        /\ UNCHANGED <<phaseHistory, session, scored>>

\* One call analyzer.analyzeExercise(landmarks, exercise).
AnalyzeExercise(a, landmarks, exercise) ==
    LET repeat == passed[a] # <<>> /\ passed[a][Len(passed[a])] = landmarks
        moved == passed[a] # <<>> /\ ~repeat
        call == Analyze(frameHistory[a], landmarks, exercise)
    IN  /\ Len(passed[a]) < CallLimit(session)
        /\ session = "switch" => exercise # asked[a]
        /\ moved => IF session = "long" THEN RunLength(passed[a]) >= MinHold
                             ELSE Changes(passed[a]) < MaxChanges
        /\ frameHistory' = [frameHistory EXCEPT ![a] = call.history]
        /\ result' = [result EXCEPT ![a] = call.result]
        /\ passed' = [passed EXCEPT ![a] = Append(@, landmarks)]
        /\ asked' = [asked EXCEPT ![a] = exercise]
        /\ lastCall' = [analyzer |-> a, landmarks |-> landmarks, exercise |-> exercise]
        /\ UNCHANGED <<phaseHistory, session, scored>>

Next ==
    \E a \in Analyzers, landmarks \in FramesOf(session), exercise \in Exercises :
        AnalyzeExercise(a, landmarks, exercise)

\* criticalErrors.push(label), then calculateFormScore on the three lists.
PushCriticalError ==
    /\ Len(scored.criticalErrors) < MaxFindings
    /\ scored' = Scored(Append(scored.criticalErrors, "critical error"),
                        scored.minorIssues, scored.strengths)
    /\ UNCHANGED <<frameHistory, phaseHistory, result, passed, asked, lastCall, session>>

NextScore == PushCriticalError

Spec == Init /\ [][Next]_vars
SpecLong == InitLong /\ [][Next]_vars
SpecPair == InitPair /\ [][Next]_vars
SpecSweep == InitSweep /\ [][Next]_vars
SpecWarm == InitWarm /\ [][Next]_vars
SpecSwitch == InitSwitch /\ [][Next]_vars
SpecScore == InitScore /\ [][NextScore]_vars

\* ------------------------------------------------------------ properties
Called(a) == result[a].outcome # "none"
ReturnedFrom(a, exercises) ==
    /\ result[a].outcome = "returned"
    /\ lastCall.analyzer = a
    /\ lastCall.exercise \in exercises

AssessmentFields == {"score", "criticalErrors", "minorIssues", "strengths", "phase", "biomechanics"}
BiomechanicsFields == {"jointAngles", "symmetry", "stability", "range", "timing"}
FullyFormed(v) ==
    /\ DOMAIN v = AssessmentFields
    /\ DOMAIN v.biomechanics = BiomechanicsFields
    /\ v.score \in Int
    /\ v.phase \in {"starting", "descending", "ascending", "bottom", "hold", "unknown"}

\* C1: when every frame passed to an analyzer so far is a well-formed array
\* of 33 landmarks, its latest call, whatever the exercise string, did not
\* throw and returned an assessment with all six fields.
C1_TotalOnWellFormed ==
    \A a \in Analyzers :
        (Called(a) /\ \A k \in 1..Len(passed[a]) : WellFormed(Pose[passed[a][k]]))
        => /\ result[a].outcome = "returned"
           /\ FullyFormed(result[a].value)

\* A fifth call on well-formed frames only, for a supported exercise: the
\* stability loop over all 33 landmarks of the 5 recent frames has run.
C1_Witness ==
    \E a \in Analyzers :
        /\ ReturnedFrom(a, Supported)
        /\ Len(passed[a]) = 5
        /\ \A k \in 1..5 : WellFormed(Pose[passed[a][k]])
        /\ passed[a][1] # passed[a][5]

\* C2: the score of every returned assessment is an integer from 0 to 100.
C2_ScoreBounds ==
    \A a \in Analyzers :
        result[a].outcome = "returned"
        => result[a].value.score \in 0..100

\* A squat result with four strengths: 100 + 4 * 5 before the clamp.
C2_Witness ==
    \E a \in Analyzers :
        /\ ReturnedFrom(a, {"squat"})
        /\ Len(result[a].value.strengths) = 4
        /\ result[a].value.score = 100

LastFrames(p, n) == IF Len(p) <= n THEN p ELSE SubSeq(p, Len(p) - n + 1, Len(p))

\* C3: after n calls the history holds exactly the most recent min(n, 30)
\* frames passed in, in call order, and is never longer than 30.
C3_HistoryIsRecentWindow ==
    \A a \in Analyzers :
        /\ Len(frameHistory[a]) <= 30
        /\ Len(frameHistory[a]) = Min2(Len(passed[a]), 30)
        /\ frameHistory[a] = LastFrames(passed[a], 30)

\* More than 30 calls, the evicted frame differing from the newest one.
C3_Witness ==
    \E a \in Analyzers :
        /\ Len(passed[a]) > 30
        /\ passed[a][1] # passed[a][Len(passed[a])]
        /\ frameHistory[a][1] # frameHistory[a][30]

\* C4: a call with an exercise id other than squat, pushup, plank and lunge
\* returns score 75, no errors, no issues, the one strength "Exercise
\* detected", phase "unknown", symmetry 0.8, stability 0.7, range 0.8,
\* timing 1.0 and no joint angles, whatever the landmarks and the history.
C4_UnknownExerciseFallback ==
    \A a \in Analyzers :
        (Called(a) /\ lastCall.analyzer = a
            /\ lastCall.exercise \notin {"squat", "pushup", "plank", "lunge"})
        => /\ result[a].outcome = "returned"
           /\ result[a].value.score = 75
           /\ result[a].value.criticalErrors = <<>>
           /\ result[a].value.minorIssues = <<>>
           /\ result[a].value.strengths = <<"Exercise detected">>
           /\ result[a].value.phase = "unknown"
           /\ RatEq(result[a].value.biomechanics.symmetry, Rat(8, 10))
           /\ RatEq(result[a].value.biomechanics.stability, Rat(7, 10))
           /\ RatEq(result[a].value.biomechanics.range, Rat(8, 10))
           /\ RatEq(result[a].value.biomechanics.timing, Rat(1, 1))
           /\ result[a].value.biomechanics.jointAngles = {}

\* An unknown exercise on the fifth call, after a change of pose.
C4_Witness ==
    \E a \in Analyzers :
        /\ ReturnedFrom(a, {"yoga"})
        /\ Len(passed[a]) = 5
        /\ passed[a][1] # passed[a][5]

InSeq(label, seq) == \E k \in 1..Len(seq) : seq[k] = label

\* The history the latest call of analyzer a found, while nothing was evicted.
HistoryBefore(a) == SubSeq(frameHistory[a], 1, Len(frameHistory[a]) - 1)

\* valgus of the claim: 100 * max over both legs of |knee.x - ankle.x|.
C5_Valgus(f) == Max2(Abs(f[25].x - f[27].x), Abs(f[26].x - f[28].x))

\* Two frames that differ in the x of knees and ankles only.
C5_KneeTwins(f, g) ==
    /\ WellFormed(f) /\ WellFormed(g)
    /\ \A i \in DOMAIN f : i \notin {25, 26, 27, 28} => f[i] = g[i]
    /\ \A i \in {25, 26, 27, 28} : f[i].y = g[i].y /\ f[i].z = g[i].z
                                   /\ f[i].visibility = g[i].visibility

\* The latest call of a was a squat on a frame with valgus > 15, and good is
\* the same frame with good knee alignment, analysed against the same history.
C5_Scenario(a, good) ==
    /\ ReturnedFrom(a, {"squat"})
    /\ Len(passed[a]) <= maxHistoryFrames
    /\ C5_KneeTwins(Pose[lastCall.landmarks], Pose[good])
    /\ C5_Valgus(Pose[lastCall.landmarks]) > 15
    /\ C5_Valgus(Pose[good]) <= 8

C5_GoodResult(a, good) == Analyze(HistoryBefore(a), good, "squat").result.value

C6_Deviation10(f) == Abs(10 * f[23].y - (10 * f[11].y + 6 * (f[27].y - f[11].y)))

C6_HipWarnings ==
    {"Hips sagging - engage core muscles", "Significant spinal misalignment",
     "Hips too low - lift to neutral"}

\* C6 as stated: a plank frame whose hip is more than 20 (x100) off the
\* shoulder-ankle line gets a hip-sag warning among its critical errors.
C6_Original ==
    \A a \in Analyzers :
        (ReturnedFrom(a, {"plank"}) /\ C6_Deviation10(Pose[lastCall.landmarks]) > 200)
        => \E w \in C6_HipWarnings : InSeq(w, result[a].value.criticalErrors)

\* C6 as amended: for plank the critical threshold is 25: above it the
\* critical errors contain "Significant spinal misalignment"; above 15 and
\* up to 25 the finding is the minor issue "Minor spinal deviation - adjust
\* position" and no critical error is raised for the deviation.
C6_PlankDeviation ==
    \A a \in Analyzers :
        ReturnedFrom(a, {"plank"})
        => LET dev10 == C6_Deviation10(Pose[lastCall.landmarks])
               v == result[a].value
           IN  /\ dev10 > 250 => InSeq("Significant spinal misalignment", v.criticalErrors)
               /\ (dev10 > 150 /\ dev10 <= 250)
                  => /\ InSeq("Minor spinal deviation - adjust position", v.minorIssues)
                     /\ ~InSeq("Significant spinal misalignment", v.criticalErrors)

\* A plank frame with the hip 0.518 off the line.
C6_Witness ==
    \E a \in Analyzers :
        /\ ReturnedFrom(a, {"plank"})
        /\ C6_Deviation10(Pose[lastCall.landmarks]) > 250
        /\ InSeq("Significant spinal misalignment", result[a].value.criticalErrors)

\* C7: every assessment returned for plank has phase "hold", whatever the
\* landmarks and however many frames the history holds.
C7_PlankPhaseHold ==
    \A a \in Analyzers :
        ReturnedFrom(a, {"plank"}) => result[a].value.phase = "hold"

\* A plank call on a history of 3 or more frames in which the hip moved.
C7_Witness ==
    \E a \in Analyzers :
        /\ ReturnedFrom(a, {"plank"})
        /\ Len(frameHistory[a]) >= 3
        /\ PhaseFromTrend(FramesIn(frameHistory[a]), 23) \in {"descending", "ascending"}

\* C8: for squat, pushup and lunge the returned phase is "starting" exactly
\* when the history, the current frame included, holds fewer than 3 frames.
C8_StartingPhase ==
    \A a \in Analyzers :
        ReturnedFrom(a, {"squat", "pushup", "lunge"})
        => (result[a].value.phase = "starting" <=> Len(frameHistory[a]) < 3)

\* The third call of an analyzer, for squat, pushup or lunge.
C8_Witness ==
    \E a \in Analyzers :
        /\ ReturnedFrom(a, {"squat", "pushup", "lunge"})
        /\ Len(passed[a]) = 3
        /\ result[a].value.phase # "starting"

\* C9 as stated: no joint angle computed by calculateAngle from landmarks
\* with finite coordinates is NaN.
C9_AngleNeverNaN ==
    \A a \in Analyzers :
        result[a].outcome = "returned"
        => \A j \in result[a].value.biomechanics.jointAngles : ~j.angle.nan

\* mean over the six left/right pairs of max(0, 1 - 10 * |left.y - right.y|).
C10_PairTerm(f, l, r) == Max2(0, 10 - Abs(f[l].y - f[r].y))
C10_Mean(f) ==
    Rat(  C10_PairTerm(f, 11, 12) + C10_PairTerm(f, 13, 14) + C10_PairTerm(f, 15, 16)
        + C10_PairTerm(f, 23, 24) + C10_PairTerm(f, 25, 26) + C10_PairTerm(f, 27, 28),
        60)

\* C10: the symmetry of every returned assessment lies in [0,1], and for
\* the four supported exercises it is the mean of the six pair terms.
C10_SymmetryBound ==
    \A a \in Analyzers :
        result[a].outcome = "returned"
        => /\ RatLE(Rat(0, 1), result[a].value.biomechanics.symmetry)
           /\ RatLE(result[a].value.biomechanics.symmetry, Rat(1, 1))
           /\ ReturnedFrom(a, Supported)
              => RatEq(result[a].value.biomechanics.symmetry,
                       C10_Mean(Pose[lastCall.landmarks]))

\* A frame with pairs more than 0.1 apart (their terms floored at 0) and a
\* symmetry strictly between 0 and 1.
C10_Witness ==
    \E a \in Analyzers :
        /\ ReturnedFrom(a, Supported)
        /\ \E i \in 1..6 : Abs(Pose[lastCall.landmarks][LeftSide[i]].y
                               - Pose[lastCall.landmarks][RightSide[i]].y) > 10
        /\ RatLT(Rat(0, 1), result[a].value.biomechanics.symmetry)
        /\ RatLT(result[a].value.biomechanics.symmetry, Rat(1, 1))

C12_Unclamped(s) ==
    100 - 25 * Len(s.criticalErrors) - 10 * Len(s.minorIssues) + 5 * Len(s.strengths)

\* A step that adds one critical error and leaves the other two lists alone.
C12_OneMoreCritical ==
    /\ Len(scored'.criticalErrors) = Len(scored.criticalErrors) + 1
    /\ scored'.minorIssues = scored.minorIssues
    /\ scored'.strengths = scored.strengths

C13_Clamp(v) == IF v < 0 THEN 0 ELSE IF v > 100 THEN 100 ELSE v

\* C13: the score of every assessment returned for squat, pushup, plank or
\* lunge is clamp(100 - 25 * |criticalErrors| - 10 * |minorIssues|
\* + 5 * |strengths|, 0, 100) of the three lists of that same assessment, so
\* it is fixed by the three counts, whatever the labels and their order.
C13_ScoringPolicy ==
    \A a \in Analyzers :
        ReturnedFrom(a, Supported)
        => LET v == result[a].value
           IN  v.score = C13_Clamp(100 - 25 * Len(v.criticalErrors)
                                       - 10 * Len(v.minorIssues)
                                       + 5 * Len(v.strengths))

\* An assessment with findings of all three kinds.
C13_Witness ==
    \E a \in Analyzers :
        /\ ReturnedFrom(a, Supported)
        /\ result[a].value.criticalErrors # <<>>
        /\ result[a].value.minorIssues # <<>>
        /\ result[a].value.strengths # <<>>
        /\ result[a].value.score \in 1..99

\* C14 as stated: an assessment with at least one critical error scores
\* below 70, so the feedback never shows it as good form.
C14_CriticalNeverPasses ==
    \A a \in Analyzers :
        (result[a].outcome = "returned" /\ result[a].value.criticalErrors # <<>>)
        => /\ result[a].value.score < 70
           /\ ~isGoodForm(result[a].value)

\* C15 as stated: a call for a supported exercise does not throw, whatever
\* the length of the landmark array, and returns an assessment.
C15_NeverThrows ==
    \A a \in Analyzers :
        (Called(a) /\ asked[a] \in Supported)
        => /\ result[a].outcome # "threw"
           /\ result[a].outcome = "returned"

\* The history after one more frame: appended at the tail, the oldest frame
\* dropped when that makes 31.
C16_Appended(history, landmarks) ==
    IF Len(history) < 30 THEN Append(history, landmarks)
    ELSE Append(SubSeq(history, 2, Len(history)), landmarks)

\* C16: every call, whatever the exercise id, appends exactly the frame
\* passed in to the tail of the caller's history, evicting the oldest frame
\* only when the length would exceed 30; the history never exceeds 30 frames
\* and phaseHistory stays empty.
C16_FrameEffect ==
    [][LET a == lastCall'.analyzer
       IN  /\ frameHistory'[a] = C16_Appended(frameHistory[a], lastCall'.landmarks)
           /\ Len(frameHistory'[a]) <= 30
           /\ phaseHistory' = phaseHistory
           /\ phaseHistory'[a] = <<>>]_vars

\* A call with an unrecognized exercise id on a full history: the frame
\* evicted differs from the frame appended.
C16_Witness ==
    \E a \in Analyzers :
        /\ ReturnedFrom(a, {"yoga"})
        /\ Len(passed[a]) > 30
        /\ passed[a][Len(passed[a]) - 30] # lastCall.landmarks
        /\ frameHistory[a][30] = lastCall.landmarks
        /\ frameHistory[a][1] = passed[a][Len(passed[a]) - 29]

\* What an analyzer that is alone holds and returns after the calls in p,
\* the last of them for `exercise`: its history is the last 30 frames of p.
C17_Alone(p, exercise) ==
    [history |-> LastFrames(p, 30),
     result |-> IF p = <<>> THEN NotCalled
                ELSE Dispatch(Pose[p[Len(p)]], exercise, FramesIn(LastFrames(p, 30)))]

\* C17: under every interleaving of calls on two analyzers, the history
\* and the latest result of each analyzer are at all times those it would
\* have had if only its own calls had been made (so a call on one leaves
\* the other's history and result as they were), and phaseHistory is empty.
C17_InstanceIsolation ==
    \A a \in Analyzers :
        /\ frameHistory[a] = C17_Alone(passed[a], asked[a]).history
        /\ result[a] = C17_Alone(passed[a], asked[a]).result
        /\ phaseHistory[a] = <<>>

\* Analyzer a has been called again after b's three calls on other frames,
\* and b still holds its own three frames and its own result.
C17_Witness ==
    \E a \in Analyzers : \E b \in Analyzers :
        /\ a # b
        /\ lastCall.analyzer = a
        /\ Len(passed[a]) = 3 /\ Len(passed[b]) = 3
        /\ passed[a] # passed[b]
        /\ frameHistory[b] = passed[b]
        /\ result[a].outcome = "returned" /\ result[b].outcome = "returned"
        /\ asked[a] = "squat" /\ asked[b] = "squat"
        /\ result[a].value.phase # result[b].value.phase

\* Frame f with both knees moved to d hundredths below the left hip, so
\* that the squat depth measure is d and no other finding's measure moves.
C18_AtDepth(f, d) ==
    With(f, 25 :> Pt(f[25].x, f[23].y + d) @@ 26 :> Pt(f[26].x, f[23].y + d))

\* Depth measures from 0 to 100 (the cap of calculateSquatDepth).
C18_Depths == {10 * k : k \in 0..10}

C18_SquatAtDepth(f, d) == analyzeSquat(C18_AtDepth(f, d), <<C18_AtDepth(f, d)>>)

\* C18 as stated, for the depth dimension of squat: over the whole range of
\* the depth measure, the other landmarks of a squat frame held fixed, the
\* depth yields a strength, a minor issue and also a critical error.
C18_ThreeTiers ==
    \A a \in Analyzers :
        ReturnedFrom(a, {"squat"})
        => LET f == Pose[lastCall.landmarks]
           IN  /\ \E d \in C18_Depths :
                     InSeq("Good squat depth", C18_SquatAtDepth(f, d).strengths)
               /\ \E d \in C18_Depths :
                     InSeq("Increase squat depth for full range of motion",
                           C18_SquatAtDepth(f, d).minorIssues)
               /\ \E d \in C18_Depths : \E e \in C18_Depths :
                     C18_SquatAtDepth(f, d).criticalErrors
                         # C18_SquatAtDepth(f, e).criticalErrors

\* The landmark whose height the phase of an exercise follows.
C19_Tracked(exercise) == IF exercise = "pushup" THEN 11 ELSE 23

\* y of the tracked landmark in the latest history frame minus its y in
\* the frame two positions earlier, in hundredths.
C19_Trend(history, idx) ==
    Pose[history[Len(history)]][idx].y - Pose[history[Len(history) - 2]][idx].y

\* C19: for squat, lunge (landmark 23) and pushup (landmark 11), with 3 or
\* more frames in the history the returned phase is "descending" when the
\* trend is above 0.01, "ascending" when it is below -0.01 and "bottom"
\* otherwise; the trend reads the latest frame and the one two positions
\* earlier and nothing else.
C19_PhaseFromTrend ==
    \A a \in Analyzers :
        (ReturnedFrom(a, {"squat", "pushup", "lunge"}) /\ Len(frameHistory[a]) >= 3)
        => LET trend == C19_Trend(frameHistory[a], C19_Tracked(lastCall.exercise))
           IN  result[a].value.phase =
                   IF trend > 1 THEN "descending"
                   ELSE IF trend < -1 THEN "ascending"
                   ELSE "bottom"

\* The pose changed between the third-latest and the middle frame and then
\* stayed: the phase follows the change although the two latest frames are
\* the same, and older frames of the other pose are in the history.
C19_Witness ==
    \E a \in Analyzers :
        /\ ReturnedFrom(a, {"squat", "pushup", "lunge"})
        /\ Len(frameHistory[a]) >= 4
        /\ frameHistory[a][Len(frameHistory[a])] = frameHistory[a][Len(frameHistory[a]) - 1]
        /\ result[a].value.phase \in {"descending", "ascending"}

\* valgus of the claim, x100: max over both legs of |knee.x - ankle.x|.
C20_Valgus(f) == Max2(Abs(f[25].x - f[27].x), Abs(f[26].x - f[28].x))

C20_Critical == "Knees caving inward - risk of injury"
C20_Minor == "Slight knee valgus - focus on external rotation"
C20_Strength == "Good knee alignment"

\* How many knee findings an assessment holds, over its three lists.
C20_KneeFindings(v) ==
    LET all == v.criticalErrors \o v.minorIssues \o v.strengths
    IN  Cardinality({k \in 1..Len(all) :
                        all[k] \in {C20_Critical, C20_Minor, C20_Strength}})

\* C20 as stated: a squat result has exactly one knee finding: the critical
\* error for valgus > 15, the minor issue for valgus from 8 to 15, and the
\* strength for anything else.
C20_Original ==
    \A a \in Analyzers :
        ReturnedFrom(a, {"squat"})
        => LET valgus == C20_Valgus(Pose[lastCall.landmarks])
               v == result[a].value
           IN  /\ C20_KneeFindings(v) = 1
               /\ InSeq(C20_Critical, v.criticalErrors) <=> valgus > 15
               /\ InSeq(C20_Minor, v.minorIssues) <=> (valgus >= 8 /\ valgus <= 15)
               /\ InSeq(C20_Strength, v.strengths) <=> valgus < 8

\* C20 as amended: a squat result has exactly one knee finding: the
\* critical error for valgus > 15, the minor issue for valgus above 8 and
\* up to 15, and the strength for valgus up to and including 8.
C20_KneeValgus ==
    \A a \in Analyzers :
        ReturnedFrom(a, {"squat"})
        => LET valgus == C20_Valgus(Pose[lastCall.landmarks])
               v == result[a].value
           IN  /\ C20_KneeFindings(v) = 1
               /\ InSeq(C20_Critical, v.criticalErrors) <=> valgus > 15
               /\ InSeq(C20_Minor, v.minorIssues) <=> (valgus > 8 /\ valgus <= 15)
               /\ InSeq(C20_Strength, v.strengths) <=> valgus <= 8

\* A squat on the frame whose valgus is exactly 8: good knee alignment.
C20_Witness ==
    \E a \in Analyzers :
        /\ ReturnedFrom(a, {"squat"})
        /\ C20_Valgus(Pose[lastCall.landmarks]) = 8
        /\ InSeq(C20_Strength, result[a].value.strengths)
        /\ Len(passed[a]) = 2
        /\ C20_Valgus(Pose[passed[a][1]]) = 15

\* 25 times the sum of squared deviations from the mean of five values:
\* sum (p - avg)^2 = sum p^2 - (sum p)^2 / 5.
C21_Spread(vals) ==
    5 * (5 * SumSeq([k \in 1..5 |-> vals[k] * vals[k]]) - SumSeq(vals) * SumSeq(vals))

\* 12500 * (100 * totalVariance) for the five frames given, totalVariance
\* the sum over all landmarks of the mean squared deviation in x and in y.
C21_Variance(five) ==
    SumSeq([j \in 1..NumLandmarks |->
              C21_Spread([k \in 1..5 |-> Pose[five[k]][j - 1].x])
            + C21_Spread([k \in 1..5 |-> Pose[five[k]][j - 1].y])])

\* C21: for squat, pushup, plank and lunge the stability is exactly 0.5
\* while the history holds fewer than 5 frames; from 5 frames on it is
\* max(0, 1 - 100 * totalVariance) of the last 5 history frames, whatever
\* older frames the history holds; it is always in [0,1].
C21_Stability ==
    \A a \in Analyzers :
        ReturnedFrom(a, Supported)
        => LET h == frameHistory[a]
               stability == result[a].value.biomechanics.stability
           IN  /\ Len(h) < 5 => RatEq(stability, Rat(1, 2))
               /\ Len(h) >= 5
                  => RatEq(stability,
                           Rat(Max2(0, 12500 - C21_Variance(LastFrames(h, 5))), 12500))
               /\ RatLE(Rat(0, 1), stability) /\ RatLE(stability, Rat(1, 1))

\* The pose changed more than five calls ago: the history still holds
\* frames of the old pose, the last five are the same frame, and the
\* stability is 1.
C21_Witness ==
    \E a \in Analyzers :
        /\ ReturnedFrom(a, Supported)
        /\ Len(frameHistory[a]) >= 6
        /\ frameHistory[a][1] # frameHistory[a][Len(frameHistory[a])]
        /\ \A k \in 1..5 : LastFrames(frameHistory[a], 5)[k] = lastCall.landmarks
        /\ RatEq(result[a].value.biomechanics.stability, Rat(1, 1))

\* Every landmark of the frame has x and y in [0,1].
C22_Normalized(f) ==
    \A i \in DOMAIN f : f[i].x \in 0..100 /\ f[i].y \in 0..100

\* max - min of the shoulder (landmark 11) y over the frames named in h.
C22_ShoulderSpread(h) ==
    LET ys == {Pose[h[k]][11].y : k \in 1..Len(h)}
        top == CHOOSE y \in ys : \A other \in ys : other <= y
        low == CHOOSE y \in ys : \A other \in ys : other >= y
    IN  top - low

\* The range the claim gives for a call of `exercise` on frame f with
\* history h.
C22_Range(exercise, f, h) ==
    CASE exercise \in {"squat", "lunge"} ->
           LET depth == 100 * Abs(f[23].y - f[25].y)
           IN  Rat(IF depth > 10000 THEN 10000 ELSE depth, 10000)
      [] exercise = "pushup" ->
           IF Len(h) < 10 THEN Rat(1, 2) ELSE Rat(C22_ShoulderSpread(h), 100)
      [] exercise = "plank" -> Rat(1, 1)
      [] OTHER -> Rat(8, 10)

\* C22: when every frame passed so far has coordinates in [0,1], the range
\* of the returned assessment is in [0,1], and it is min(100, 100 * |hip.y
\* - knee.y|) / 100 for squat and lunge, 0.5 for pushup on fewer than 10
\* history frames and the spread of the shoulder y over the history from 10
\* frames on, 1.0 for plank and 0.8 for an unknown exercise.
C22_RangeBound ==
    \A a \in Analyzers :
        (/\ result[a].outcome = "returned"
         /\ lastCall.analyzer = a
         /\ \A k \in 1..Len(passed[a]) : C22_Normalized(Pose[passed[a][k]]))
        => LET range == result[a].value.biomechanics.range
           IN  /\ RatLE(Rat(0, 1), range) /\ RatLE(range, Rat(1, 1))
               /\ RatEq(range, C22_Range(lastCall.exercise, Pose[lastCall.landmarks],
                                         frameHistory[a]))

\* A pushup on 10 or more frames in which the shoulder has moved: the
\* range is the spread, strictly between 0 and 0.5.
C22_Witness ==
    \E a \in Analyzers :
        /\ ReturnedFrom(a, {"pushup"})
        /\ Len(frameHistory[a]) >= 10
        /\ \A k \in 1..Len(passed[a]) : C22_Normalized(Pose[passed[a][k]])
        /\ RatLT(Rat(0, 1), result[a].value.biomechanics.range)
        /\ RatLT(result[a].value.biomechanics.range, Rat(1, 2))

\* C23: for squat, pushup, plank and lunge a result scores 100 exactly when
\* it has no critical error and at most one minor issue, and a result with
\* a critical error scores at most 90.
C23_PerfectScore ==
    \A a \in Analyzers :
        ReturnedFrom(a, Supported)
        => LET v == result[a].value
           IN  /\ v.score = 100 <=> (v.criticalErrors = <<>> /\ Len(v.minorIssues) <= 1)
               /\ v.criticalErrors # <<>> => v.score <= 90

\* A result that scores 100 with a minor issue in it.
C23_Witness ==
    \E a \in Analyzers :
        /\ ReturnedFrom(a, Supported)
        /\ result[a].value.score = 100
        /\ Len(result[a].value.minorIssues) = 1

\* All labels of an assessment, in one list.
C24_Labels(v) == v.criticalErrors \o v.minorIssues \o v.strengths

\* C24: a result has one finding per measured dimension: 4 labels in all
\* for squat and 3 for pushup, plank and lunge, no label twice, and at most
\* 2 critical errors for squat and plank, at most 1 for pushup and lunge.
C24_OneFindingPerDimension ==
    \A a \in Analyzers :
        ReturnedFrom(a, Supported)
        => LET v == result[a].value
               all == C24_Labels(v)
           IN  /\ Len(all) = IF lastCall.exercise = "squat" THEN 4 ELSE 3
               /\ \A j \in 1..Len(all) : \A k \in 1..Len(all) :
                      all[j] = all[k] => j = k
               /\ Len(v.criticalErrors)
                      <= IF lastCall.exercise \in {"squat", "plank"} THEN 2 ELSE 1

\* A plank with both of its possible critical errors, and a minor issue.
C24_Witness ==
    \E a \in Analyzers :
        /\ ReturnedFrom(a, {"plank"})
        /\ Len(result[a].value.criticalErrors) = 2
        /\ Len(result[a].value.minorIssues) = 1

\* The least score each exercise id can return.
C25_Floor(exercise) ==
    CASE exercise = "squat" -> 30
      [] exercise = "plank" -> 40
      [] exercise \in {"pushup", "lunge"} -> 55
      [] OTHER -> 75

\* C25: the lower clamp of the scoring policy is never reached through
\* analyzeExercise: a squat scores at least 30, a plank at least 40, a
\* pushup or a lunge at least 55, and an unknown exercise exactly 75.
C25_ScoreFloor ==
    \A a \in Analyzers :
        ReturnedFrom(a, Exercises)
        => /\ result[a].value.score >= C25_Floor(lastCall.exercise)
           /\ result[a].value.score >= 30
           /\ lastCall.exercise \notin Supported => result[a].value.score = 75

\* The floors are met: a plank at 40 has both its critical errors and one
\* minor issue, a pushup at 55 one critical error and two minor issues.
C25_Witness ==
    \E a \in Analyzers :
        /\ ReturnedFrom(a, {"plank", "pushup"})
        /\ result[a].value.score = C25_Floor(lastCall.exercise)

\* y of landmark idx in the frame of the latest call minus its y in the
\* frame of the call two before it, whatever ids those calls asked for.
C26_Trend(frames, idx) ==
    Pose[frames[Len(frames)]][idx].y - Pose[frames[Len(frames) - 2]][idx].y

\* C26: frameHistory is one list for all exercise ids and is never reset
\* when the id changes: in a session where every call asks for another id
\* than the call before it, the history is the list of all frames passed
\* so far, and from the third call on a squat, pushup or lunge never
\* returns "starting" but the phase of the trend over those frames.
C26_SharedAcrossExercises ==
    \A a \in Analyzers :
        /\ session = "switch" => frameHistory[a] = passed[a]
        /\ (session = "switch" /\ Len(passed[a]) >= 3
                /\ ReturnedFrom(a, {"squat", "pushup", "lunge"}))
           => LET trend == C26_Trend(passed[a], IF lastCall.exercise = "pushup" THEN 11 ELSE 23)
              IN  /\ result[a].value.phase # "starting"
                  /\ result[a].value.phase =
                         IF trend > 1 THEN "descending"
                         ELSE IF trend < -1 THEN "ascending"
                         ELSE "bottom"

\* The third call of a session, each call under another id than the one
\* before: its phase follows the frame of the first call.
C26_Witness ==
    \E a \in Analyzers :
        /\ session = "switch"
        /\ Len(passed[a]) = 3
        /\ passed[a][1] # passed[a][3]
        /\ ReturnedFrom(a, {"squat", "pushup", "lunge"})
        /\ result[a].value.phase \in {"descending", "ascending"}

C27_Increase == "Increase range of motion - lower chest closer to ground"
C27_GoodRange == "Good range of motion"

\* 100 * (max - min) of the shoulder (landmark 11) y over all frames named
\* in h, in the units of calculatePushupROM.
C27_ROM(h) ==
    LET ys == {Pose[h[k]][11].y : k \in 1..Len(h)}
    IN  (CHOOSE y \in ys : \A other \in ys : other <= y)
        - (CHOOSE y \in ys : \A other \in ys : other >= y)

\* C27: a pushup on a history of fewer than 10 frames (the first 9 calls on
\* an analyzer) has the minor issue "Increase range of motion - lower chest
\* closer to ground" and range 0.5 whatever the landmarks; from the 10th
\* frame on the range of motion is 100 * (max - min) of the shoulder y over
\* the whole history of up to 30 frames, reported as range = ROM / 100 and
\* as the minor issue below 60, "Good range of motion" otherwise.
C27_PushupWarmup ==
    \A a \in Analyzers :
        ReturnedFrom(a, {"pushup"})
        => LET h == frameHistory[a]
               v == result[a].value
               rom == IF Len(h) < 10 THEN 50 ELSE C27_ROM(h)
           IN  /\ Len(passed[a]) <= 9 => Len(h) < 10
               /\ Len(h) < 10
                  => /\ InSeq(C27_Increase, v.minorIssues)
                     /\ RatEq(v.biomechanics.range, Rat(1, 2))
               /\ RatEq(v.biomechanics.range, Rat(rom, 100))
               /\ InSeq(C27_Increase, v.minorIssues) <=> rom < 60
               /\ InSeq(C27_GoodRange, v.strengths) <=> rom >= 60

\* A full history of 30 frames that still holds both poses, the latest
\* frames all the same: the range of motion is their distance, 65.
C27_Witness ==
    \E a \in Analyzers :
        /\ ReturnedFrom(a, {"pushup"})
        /\ Len(passed[a]) > maxHistoryFrames
        /\ Len(frameHistory[a]) = maxHistoryFrames
        /\ frameHistory[a][1] # lastCall.landmarks
        /\ frameHistory[a][Len(frameHistory[a]) - 1] = lastCall.landmarks
        /\ InSeq(C27_GoodRange, result[a].value.strengths)
        /\ RatEq(result[a].value.biomechanics.range, Rat(65, 100))

C28_Lean == "Excessive forward lean - maintain upright torso"
C28_Good == "Good torso position"

\* shoulder.x - hip.x < |shoulder.y - hip.y|, landmarks 11 and 23.
C28_Steep(f) == f[11].x - f[23].x < Abs(f[11].y - f[23].y)

C29_Lean == "Excessive forward lean - keep torso upright"
C29_Good == "Good torso position"

\* C29: a lunge on a frame whose shoulder (landmark 11) is level with or
\* higher in the image than the hip (shoulder.y <= hip.y), the two points
\* apart, has the minor issue "Excessive forward lean - keep torso
\* upright"; "Good torso position" is returned only when shoulder.y >
\* hip.y or the two points coincide.
C29_TorsoLean ==
    \A a \in Analyzers :
        ReturnedFrom(a, {"lunge"})
        => LET f == Pose[lastCall.landmarks]
               v == result[a].value
               apart == f[11].x # f[23].x \/ f[11].y # f[23].y
           IN  /\ (f[11].y <= f[23].y /\ apart) => InSeq(C29_Lean, v.minorIssues)
               /\ InSeq(C29_Good, v.strengths) => (f[11].y > f[23].y \/ ~apart)

\* A lunge with the shoulder straight above the hip, reported as leaning.
C29_Witness ==
    \E a \in Analyzers :
        /\ ReturnedFrom(a, {"lunge"})
        /\ Pose[lastCall.landmarks][11].x = Pose[lastCall.landmarks][23].x
        /\ Pose[lastCall.landmarks][11].y < Pose[lastCall.landmarks][23].y
        /\ InSeq(C29_Lean, result[a].value.minorIssues)
        /\ ~InSeq(C29_Good, result[a].value.strengths)

\* The frame with the same x and y, every z at 0 and every visibility at 1.
C30_Flat(f) == [i \in DOMAIN f |-> [x |-> f[i].x, y |-> f[i].y, z |-> 0, visibility |-> 100]]

\* Some landmark of the frame has a depth, or a visibility below 0.5.
C30_Depth(f) == \E i \in DOMAIN f : f[i].z # 0 /\ f[i].visibility < 50

\* C30: the assessment does not depend on z or visibility: at every step
\* the result is the one the same calls give on frames with the same x and
\* y, z = 0 and visibility = 1, whatever z and visibility the frames passed
\* had (visibility below 0.5 included).
C30_DepthBlind ==
    \A a \in Analyzers :
        (lastCall.analyzer = a /\ result[a].outcome # "none")
        => result[a] =
              Dispatch(C30_Flat(Pose[lastCall.landmarks]), lastCall.exercise,
                       [k \in 1..Len(frameHistory[a]) |-> C30_Flat(Pose[frameHistory[a][k]])])

\* Ten or more calls, the latest on a frame with depths and visibilities
\* below 0.5 and an earlier one on a flat frame, analysed as an exercise.
C30_Witness ==
    \E a \in Analyzers :
        /\ ReturnedFrom(a, Supported)
        /\ Len(frameHistory[a]) >= 10
        /\ C30_Depth(Pose[lastCall.landmarks])
        /\ ~C30_Depth(Pose[frameHistory[a][1]])
        /\ Pose[lastCall.landmarks] # C30_Flat(Pose[lastCall.landmarks])

====
